---- MODULE Spec2Model ----
\* Model of the Baldor catalog scraper (src/src/Baldor.py, src/src/main.py).
\* Texts are sequences of one-character strings, paths are sequences of
\* path components (the code joins them with "\\"), a dict is a function.
EXTENDS Integers, Sequences, FiniteSets, TLC

VARIABLES pc, error, crashStep, target, limit, categories, nlinks, location,
          products, productsEpoch, listEpoch, i, page, product_json,
          files, dirs, quitCalls, trace, persistCount

vars == <<pc, error, crashStep, target, limit, categories, nlinks, location,
          products, productsEpoch, listEpoch, i, page, product_json,
          files, dirs, quitCalls, trace, persistCount>>

\* ---------------------------------------------------------------- bounds
MaxLimit == 2
MaxLinks == 3

\* ------------------------------------------------------------- texts
\* Python's None, as a value comparable with texts.
None == <<"<None>">>

Whitespace == {" ", "\t", "\n"}

UpperChars == <<"A","B","C","D","E","F","G","H","I","J","K","L","M",
                "N","O","P","Q","R","S","T","U","V","W","X","Y","Z">>
LowerChars == <<"a","b","c","d","e","f","g","h","i","j","k","l","m",
                "n","o","p","q","r","s","t","u","v","w","x","y","z">>

\* str.lower on one character
LowerChar(c) ==
  IF \E k \in 1..26 : UpperChars[k] = c
  THEN LowerChars[CHOOSE k \in 1..26 : UpperChars[k] = c]
  ELSE c

\* str.lower
Lower(t) == [k \in 1..Len(t) |-> LowerChar(t[k])]

RECURSIVE LStrip(_)
LStrip(t) ==
  IF t # <<>> /\ Head(t) \in Whitespace THEN LStrip(Tail(t)) ELSE t

RECURSIVE RStrip(_)
RStrip(t) ==
  IF t # <<>> /\ t[Len(t)] \in Whitespace
  THEN RStrip(SubSeq(t, 1, Len(t) - 1)) ELSE t

\* str.strip / get_text(strip=True) on an element holding one text node
Strip(t) == RStrip(LStrip(t))

\* ------------------------------------------------------- program constants
DCMotors == <<"D","C"," ","M","o","t","o","r","s">>
Unidentified == <<"U","n","i","d","e","n","t","i","f","i","e","d">>
output == <<"o","u","t","p","u","t">>
assets == <<"a","s","s","e","t","s">>
manual_pdf == <<"m","a","n","u","a","l",".","p","d","f">>
img_jpg == <<"i","m","g",".","j","p","g">>
dot_json == <<".","j","s","o","n">>
HP == <<"H","P">>
VOLTS == <<"V","O","L","T","S">>
RPM == <<"R","P","M">>
FRAME == <<"F","R","A","M","E">>
specs_keys == {HP, VOLTS, RPM, FRAME}

\* dict keys of product_json, in the order __get_metadata inserts them
KeyOrder == <<"product_id", "description", "specs", "bom">>

\* ------------------------------------------------------------ documents
\* A queried element: soup.find returns None (present = FALSE) or a tag.
NoElem == [present |-> FALSE, text |-> <<>>]
Elem(t) == [present |-> TRUE, text |-> t]

\* The specs table: rows of header cells (th) and value cells (td).
NoSpecs == [present |-> FALSE, rows |-> <<>>]
SpecsTable(rows) == [present |-> TRUE, rows |-> rows]

\* The parts container: div, the table inside it, the tbody inside that.
NoParts == [div |-> FALSE, table |-> FALSE, tbody |-> FALSE, rows |-> <<>>]
PartsNoTable == [div |-> TRUE, table |-> FALSE, tbody |-> FALSE, rows |-> <<>>]
PartsNoTbody == [div |-> TRUE, table |-> TRUE, tbody |-> FALSE, rows |-> <<>>]
PartsTable(rows) == [div |-> TRUE, table |-> TRUE, tbody |-> TRUE, rows |-> rows]

\* An asset source element and what requests.get answers for its URL:
\* answered = FALSE stands for requests.get raising.
NoAsset == [present |-> FALSE, answered |-> FALSE, status |-> 0, content |-> ""]
Asset(st, body) == [present |-> TRUE, answered |-> TRUE, status |-> st, content |-> body]
AssetNoAnswer == [present |-> TRUE, answered |-> FALSE, status |-> 0, content |-> ""]

Doc(t, d, s, p, m, g) ==
  [title |-> t, description |-> d, specs |-> s, parts |-> p, manual |-> m, image |-> g]

BlankPage == Doc(NoElem, NoElem, NoSpecs, NoParts, NoAsset, NoAsset)

\* ------------------------------------------------------------------ dicts
EmptyDict == [x \in {} |-> None]
Put(d, k, v) == [x \in (DOMAIN d) \cup {k} |-> IF x = k THEN v ELSE d[x]]

\* ------------------------------------------------- __get_metadata, pure part
Min(a, b) == IF a < b THEN a ELSE b

\* SpecsOfRow with the allow-list test made case-insensitive
RECURSIVE SpecsOfRowAnyCase(_, _, _, _)
SpecsOfRowAnyCase(specs, headers, values, k) ==
  IF k > Min(Len(headers), Len(values)) THEN specs
  ELSE LET key == Strip(headers[k])
           value == Strip(values[k])
       IN  SpecsOfRowAnyCase(IF Lower(key) \notin {Lower(x) : x \in specs_keys}
                             THEN specs
                             ELSE Put(specs, Lower(key), value),
                             headers, values, k + 1)

\* for th, td in zip(headers, values): keep allow-listed keys, lower-cased
RECURSIVE SpecsOfRow(_, _, _, _)
SpecsOfRow(specs, headers, values, k) ==
  IF k > Min(Len(headers), Len(values)) THEN specs
  ELSE LET key == Strip(headers[k])
           value == Strip(values[k])
       IN  SpecsOfRow(IF key \notin specs_keys THEN specs
                      ELSE Put(specs, Lower(key), value),
                      headers, values, k + 1)

\* for row in rows
RECURSIVE SpecsOfRows(_, _)
SpecsOfRows(specs, rows) ==
  IF rows = <<>> THEN specs
  ELSE SpecsOfRows(SpecsOfRow(specs, Head(rows).th, Head(rows).td, 1), Tail(rows))

ExtractSpecs(table) ==
  IF table.present THEN SpecsOfRows(EmptyDict, table.rows) ELSE EmptyDict

\* for row in tbody.find_all("tr"): rows of exactly three cells become entries
\* BomOfRows with the cell-count test loosened to "at least three"
RECURSIVE BomOfRowsAtLeast3(_, _)
BomOfRowsAtLeast3(bom, rows) ==
  IF rows = <<>> THEN bom
  ELSE LET cells == Head(rows)
       IN  BomOfRowsAtLeast3(IF Len(cells) >= 3
                             THEN Append(bom, [part_number |-> Strip(cells[1]),
                                               description |-> Strip(cells[2]),
                                               quantity |-> Strip(cells[3])])
                             ELSE bom,
                             Tail(rows))

RECURSIVE BomOfRows(_, _)
BomOfRows(bom, rows) ==
  IF rows = <<>> THEN bom
  ELSE LET cells == Head(rows)
       IN  BomOfRows(IF Len(cells) = 3
                     THEN Append(bom, [part_number |-> Strip(cells[1]),
                                       description |-> Strip(cells[2]),
                                       quantity |-> Strip(cells[3])])
                     ELSE bom,
                     Tail(rows))

\* tbody = table.find("tbody") is None when the table has no body section,
\* and tbody.find_all then raises AttributeError.
BomRaises(parts) == parts.div /\ parts.table /\ ~parts.tbody

ExtractBom(parts) ==
  IF parts.div /\ parts.table THEN BomOfRows(<<>>, parts.rows) ELSE <<>>

TextOrNone(elem) == IF elem.present THEN Strip(elem.text) ELSE None

\* GetMetadata with bom assigned only when the parts container is there
GetMetadataKeepBom(pj, doc) ==
  LET pj1 == Put(pj, "product_id", TextOrNone(doc.title))
      pj2 == Put(pj1, "description", TextOrNone(doc.description))
      pj3 == Put(pj2, "specs", ExtractSpecs(doc.specs))
  IN  IF BomRaises(doc.parts)
      THEN [raised |-> TRUE, pj |-> pj3]
      ELSE [raised |-> FALSE,
            pj |-> IF doc.parts.div THEN Put(pj3, "bom", ExtractBom(doc.parts))
                   ELSE pj3]

\* The effect of __get_metadata on the shared dict: the keys are assigned in
\* program order, and an exception leaves the assignments made before it.
GetMetadata(pj, doc) ==
  LET pj1 == Put(pj, "product_id", TextOrNone(doc.title))
      pj2 == Put(pj1, "description", TextOrNone(doc.description))
      pj3 == Put(pj2, "specs", ExtractSpecs(doc.specs))
  IN  IF BomRaises(doc.parts)
      THEN [raised |-> TRUE, pj |-> pj3]
      ELSE [raised |-> FALSE, pj |-> Put(pj3, "bom", ExtractBom(doc.parts))]

\* ------------------------------------------------------------ file system
\* p_id = product_json["product_id"] if it is not None else "Unidentified"
PId(pj) == IF pj["product_id"] # None THEN pj["product_id"] ELSE Unidentified

\* f"output\\assets\\{p_id}"
AssetDir(p_id) == <<output, assets, p_id>>
\* JsonPath with the identifier lower-cased in the file name
JsonPathLower(p_id) == <<output, Lower(p_id) \o dot_json>>

\* f"output\\{p_id}.json"
JsonPath(p_id) == <<output, p_id \o dot_json>>

Parent(path) == SubSeq(path, 1, Len(path) - 1)

\* os.makedirs(path, exist_ok=True): the directory and all its ancestors
MakeDirs(ds, path) == ds \cup {SubSeq(path, 1, k) : k \in 1..Len(path)}

\* open(path, "w") / open(path, "wb") needs the parent directory
CanOpen(ds, path) == Parent(path) \in ds

\* WriteFile that leaves an existing file as it is
WriteFileKeep(fs, path, content) ==
  [x \in (DOMAIN fs) \cup {path} |-> IF x \in DOMAIN fs THEN fs[x] ELSE content]

WriteFile(fs, path, content) ==
  [x \in (DOMAIN fs) \cup {path} |-> IF x = path THEN content ELSE fs[x]]

\* json.dump: the key/value pairs in insertion order
JsonDump(pj) ==
  LET keys == SelectSeq(KeyOrder, LAMBDA k : k \in DOMAIN pj)
  IN  [n \in 1..Len(keys) |-> <<keys[n], pj[keys[n]]>>]

\* ------------------------------------------------------------ environment
\* What the site can show.  Detail pages are picked when a link is clicked.
M1 == <<"M","1">>
ACMotors == <<"A","C"," ","M","o","t","o","r","s">>
Gearing == <<"G","e","a","r","s">>

CategoryLists ==
  { <<>>,
    <<ACMotors>>,
    <<DCMotors, ACMotors, <<" ">> \o DCMotors>>,
    <<ACMotors, Gearing, Gearing, Gearing, DCMotors>> }

Targets == {None, DCMotors}

GoodRow == << <<"p","1">>, <<"d">>, <<"2">> >>
ShortRow == << <<"p","2">>, <<"d">> >>

SpecRow == [th |-> <<HP>>, td |-> << <<"5">> >>]

\* the title, the three metadata shapes, and the outcomes of the two assets
RunTitles == {NoElem, Elem(M1)}
RunMetadata ==
  { [description |-> NoElem, specs |-> NoSpecs, parts |-> NoParts],
    [description |-> Elem(<<"d">>), specs |-> SpecsTable(<<SpecRow>>),
     parts |-> PartsTable(<<GoodRow, ShortRow>>)],
    [description |-> NoElem, specs |-> SpecsTable(<<SpecRow>>),
     parts |-> PartsNoTbody] }
RunManuals == {NoAsset, Asset(404, "b1"), Asset(200, "b1"), Asset(200, "b2")}
RunImages == {NoAsset, AssetNoAnswer, Asset(200, "b3")}

RunPages ==
  { Doc(t, x.description, x.specs, x.parts, m, g) :
      t \in RunTitles, x \in RunMetadata, m \in RunManuals, g \in RunImages }

Ev(op, arg) == [op |-> op, arg |-> arg]

\* number of a.ng-binding links the current page shows
LinksOnPage == IF location = "list" THEN nlinks ELSE 0

\* ------------------------------------------------------------------ Init
\* main.py:22 has run: the session exists, nothing was navigated yet.
Init ==
  /\ pc = "open"
  /\ error = "none"
  /\ crashStep = "none"
  /\ target \in Targets
  /\ limit \in 0..MaxLimit
  /\ categories \in CategoryLists
  /\ nlinks \in 0..MaxLinks
  /\ location = "blank"
  /\ products = 0
  /\ productsEpoch = 0
  /\ listEpoch = 0
  /\ i = 0
  /\ page = BlankPage
  /\ product_json = EmptyDict
  /\ files = EmptyDict
  /\ dirs \in {{}, {<<output>>}}
  /\ quitCalls = 0
  /\ trace = <<>>
  /\ persistCount = 0

\* An exception nobody catches ends main.py at once (no try/finally there).
Crash(step, exc) ==
  /\ pc' = "crashed"
  /\ error' = exc
  /\ crashStep' = step

\* ------------------------------------------------------------------ open
\* handle_consent_popup with the settle pause after the try statement
handle_consent_popup_pause_always(clickable) ==
  IF clickable
  THEN <<Ev("consent_click", 0), Ev("sleep", 4)>>
  ELSE <<Ev("consent_timeout", 0), Ev("sleep", 4)>>

\* handle_consent_popup: the wait returns the clickable control, which is
\* clicked and followed by the pause, or raises TimeoutException, caught.
handle_consent_popup(clickable) ==
  IF clickable
  THEN <<Ev("consent_click", 0), Ev("sleep", 4)>>
  ELSE <<Ev("consent_timeout", 0)>>

\* Baldor.open with handle_consent_popup
open ==
  /\ pc = "open"
  /\ location' = "catalog"
  /\ \E clickable \in BOOLEAN :
       trace' = trace \o <<Ev("get", 0)>> \o handle_consent_popup(clickable)
  /\ pc' = "load"
  /\ UNCHANGED <<error, crashStep, target, limit, categories, nlinks, products,
                 productsEpoch, listEpoch, i, page, product_json, files, dirs,
                 quitCalls, persistCount>>

\* ------------------------------------------------------- load_products_page
\* for element in catalog_of_products: click every element whose stripped
\* label equals the target.  After a click the handles may have gone stale;
\* reading element.text of a stale handle raises.
RECURSIVE ScanCategories(_, _, _, _, _)
ScanCategories(cats, tgt, k, clicked, stale) ==
  IF k > Len(cats) THEN [clicked |-> clicked, raised |-> FALSE]
  ELSE IF clicked # <<>> /\ stale THEN [clicked |-> clicked, raised |-> TRUE]
  ELSE ScanCategories(cats, tgt, k + 1,
                      IF Strip(cats[k]) = tgt THEN Append(clicked, k) ELSE clicked,
                      stale)

\* the try body after the first delay, lines 92-100
SelectCategory(cats, tgt, stale) ==
  IF tgt # None THEN ScanCategories(cats, tgt, 1, <<>>, stale)
  ELSE IF Len(cats) >= 5 THEN [clicked |-> <<5>>, raised |-> FALSE]
  ELSE [clicked |-> <<>>, raised |-> TRUE]

ClickEvents(clicked) == [k \in 1..Len(clicked) |-> Ev("category_click", clicked[k])]

\* LoadEvents with the settle delay as the last statement of the try body
\* instead of a finally clause
LoadEventsNoFinally(cats, tgt, stale) ==
  IF cats = <<>>
  THEN <<Ev("wait_timeout", 0)>>
  ELSE LET r == SelectCategory(cats, tgt, stale)
       IN  <<Ev("sleep_rand", 0)>> \o ClickEvents(r.clicked)
             \o (IF r.raised THEN <<Ev("general_error", 0)>>
                 ELSE <<Ev("sleep_rand", 0), Ev("sleep", 3)>>)

\* What load_products_page does, in order: the wait raises TimeoutException
\* on an empty list (caught at line 107); otherwise the pacing delay, the
\* clicks, then the second pacing delay or the handler of line 109; the
\* finally clause sleeps 3 on every path.
LoadEvents(cats, tgt, stale) ==
  IF cats = <<>>
  THEN <<Ev("wait_timeout", 0), Ev("sleep", 3)>>
  ELSE LET r == SelectCategory(cats, tgt, stale)
       IN  <<Ev("sleep_rand", 0)>> \o ClickEvents(r.clicked)
             \o (IF r.raised THEN <<Ev("general_error", 0)>>
                 ELSE <<Ev("sleep_rand", 0)>>)
             \o <<Ev("sleep", 3)>>

load_products_page ==
  /\ pc = "load"
  /\ \E stale \in BOOLEAN :
       /\ trace' = trace \o LoadEvents(categories, target, stale)
       /\ location' = IF categories # <<>>
                         /\ SelectCategory(categories, target, stale).clicked # <<>>
                      THEN "list" ELSE location
  /\ pc' = "scrap"
  /\ UNCHANGED <<error, crashStep, target, limit, categories, nlinks, products,
                 productsEpoch, listEpoch, i, page, product_json, files, dirs,
                 quitCalls, persistCount>>

\* ------------------------------------------------------------ scrap_product
\* lines 125-128: wait.until polls until the lookup is non-empty, so it
\* either returns at least one handle or raises TimeoutException.
scrap_product ==
  /\ pc = "scrap"
  /\ trace' = Append(trace, Ev("scrap_start", limit))
  /\ IF LinksOnPage = 0
     THEN /\ Crash("scrap_wait", "TimeoutException")
          /\ UNCHANGED <<products, productsEpoch, i>>
     ELSE /\ products' = LinksOnPage
          /\ productsEpoch' = listEpoch
          /\ i' = 0
          /\ pc' = "loop"
          /\ UNCHANGED <<error, crashStep>>
  /\ UNCHANGED <<target, limit, categories, nlinks, location, listEpoch, page,
                 product_json, files, dirs, quitCalls, persistCount>>

\* lines 130-137: the loop head and the click on products[i+1].  The handles
\* date from the lookup before the loop; once the list page was left and
\* re-entered they may be stale, and a click on a stale handle raises.
loop_click ==
  /\ pc = "loop"
  /\ i < limit
  /\ \E stale \in BOOLEAN, doc \in RunPages :
       IF products = 0
       THEN /\ Crash("click", "No valid products found.")
            /\ UNCHANGED <<location, page, trace>>
       ELSE IF i + 1 >= products
       THEN /\ Crash("click", "IndexError")
            /\ UNCHANGED <<location, page, trace>>
       ELSE IF productsEpoch # listEpoch /\ stale
       THEN /\ Crash("click", "StaleElementReferenceException")
            /\ UNCHANGED <<location, page, trace>>
       ELSE /\ location' = "detail"
            /\ page' = doc
            /\ trace' = Append(trace, Ev("click", i + 1))
            /\ pc' = "metadata"
            /\ UNCHANGED <<error, crashStep>>
  /\ UNCHANGED <<target, limit, categories, nlinks, products, productsEpoch,
                 listEpoch, i, product_json, files, dirs, quitCalls, persistCount>>

\* the loop is exhausted: scrap_product returns to main.py:27
loop_end ==
  /\ pc = "loop"
  /\ i >= limit
  /\ pc' = "exit"
  /\ UNCHANGED <<error, crashStep, target, limit, categories, nlinks, location,
                 products, productsEpoch, listEpoch, i, page, product_json,
                 files, dirs, quitCalls, trace, persistCount>>

\* __get_metadata
get_metadata ==
  /\ pc = "metadata"
  /\ LET r == GetMetadata(product_json, page)
     IN  /\ product_json' = r.pj
         /\ IF r.raised
            THEN /\ Crash("metadata", "AttributeError")
                 /\ UNCHANGED trace
            ELSE /\ pc' = "manual"
                 /\ trace' = Append(trace, Ev("metadata", i))
                 /\ UNCHANGED <<error, crashStep>>
  /\ UNCHANGED <<target, limit, categories, nlinks, location, products,
                 productsEpoch, listEpoch, i, page, files, dirs, quitCalls,
                 persistCount>>

\* The body shared by __get_manual_pdf and __get_img: every exception inside
\* the try is caught, so the step always returns.
FetchDirs(ds, pj, asset) ==
  IF asset.present THEN MakeDirs(ds, AssetDir(PId(pj))) ELSE ds

\* FetchFiles without the status test
FetchFilesAnyStatus(fs, pj, asset, filename) ==
  IF asset.present /\ asset.answered
  THEN WriteFile(fs, Append(AssetDir(PId(pj)), filename), asset.content)
  ELSE fs

FetchFiles(fs, pj, asset, filename) ==
  IF asset.present /\ asset.answered /\ asset.status = 200
  THEN WriteFile(fs, Append(AssetDir(PId(pj)), filename), asset.content)
  ELSE fs

\* __get_manual_pdf
get_manual_pdf ==
  /\ pc = "manual"
  /\ dirs' = FetchDirs(dirs, product_json, page.manual)
  /\ files' = FetchFiles(files, product_json, page.manual, manual_pdf)
  /\ trace' = Append(trace, Ev("manual", i))
  /\ pc' = "img"
  /\ UNCHANGED <<error, crashStep, target, limit, categories, nlinks, location,
                 products, productsEpoch, listEpoch, i, page, product_json,
                 quitCalls, persistCount>>

\* __get_img
get_img ==
  /\ pc = "img"
  /\ dirs' = FetchDirs(dirs, product_json, page.image)
  /\ files' = FetchFiles(files, product_json, page.image, img_jpg)
  /\ trace' = Append(trace, Ev("img", i))
  /\ pc' = "save"
  /\ UNCHANGED <<error, crashStep, target, limit, categories, nlinks, location,
                 products, productsEpoch, listEpoch, i, page, product_json,
                 quitCalls, persistCount>>

\* __save_json: open(json_path, "w") raises FileNotFoundError when the
\* output directory does not exist; nothing in this method creates it.
save_json ==
  /\ pc = "save"
  /\ LET json_path == JsonPath(PId(product_json))
     IN  IF CanOpen(dirs, json_path)
         THEN /\ files' = WriteFile(files, json_path, JsonDump(product_json))
              /\ persistCount' = persistCount + 1
              /\ trace' = Append(trace, Ev("save", i))
              /\ pc' = "back"
              /\ UNCHANGED <<error, crashStep>>
         ELSE /\ Crash("save", "FileNotFoundError")
              /\ UNCHANGED <<files, persistCount, trace>>
  /\ UNCHANGED <<target, limit, categories, nlinks, location, products,
                 productsEpoch, listEpoch, i, page, product_json, dirs, quitCalls>>

\* lines 144-145: the pacing delay and driver.back(); the for loop advances
back ==
  /\ pc = "back"
  /\ location' = "list"
  /\ listEpoch' = listEpoch + 1
  /\ i' = i + 1
  /\ trace' = Append(trace, Ev("back", i))
  /\ pc' = "loop"
  /\ UNCHANGED <<error, crashStep, target, limit, categories, nlinks, products,
                 productsEpoch, page, product_json, files, dirs, quitCalls,
                 persistCount>>

\* Baldor.exit
exit ==
  /\ pc = "exit"
  /\ quitCalls' = quitCalls + 1
  /\ pc' = "done"
  /\ UNCHANGED <<error, crashStep, target, limit, categories, nlinks, location,
                 products, productsEpoch, listEpoch, i, page, product_json,
                 files, dirs, trace, persistCount>>

Next ==
  \/ open
  \/ load_products_page
  \/ scrap_product
  \/ loop_click
  \/ loop_end
  \/ get_metadata
  \/ get_manual_pdf
  \/ get_img
  \/ save_json
  \/ back
  \/ exit

Spec == Init /\ [][Next]_vars

\* main.py runs each statement as soon as the previous one returns.
FairSpec == Spec /\ WF_vars(Next)

TypeOK ==
  /\ pc \in {"open", "load", "scrap", "loop", "metadata", "manual", "img",
             "save", "back", "exit", "done", "crashed"}
  /\ i \in 0..limit
  /\ quitCalls \in 0..1
  /\ persistCount \in 0..limit

\* ------------------------------------------------- extraction on its own
\* __get_metadata applied to one rendered document, for the properties of
\* the extraction alone.  The dict may hold what an earlier product left.
MaxRows == 5

Digit == <<"1", "2", "3", "4", "5", "6", "7", "8", "9">>
\* the text of cell j of row k, with padding that get_text(strip=True) removes
Cell(k, j) == <<" ", "r", Digit[k], "c", Digit[j], "\n">>
RowOf(k, n) == [j \in 1..n |-> Cell(k, j)]
CellCounts == {2, 3, 4}

RECURSIVE CountLists(_)
CountLists(n) ==
  IF n = 0 THEN {<<>>}
  ELSE LET shorter == CountLists(n - 1)
       IN  shorter \cup {Append(c, x) : c \in {l \in shorter : Len(l) = n - 1},
                                         x \in CellCounts}

RowsOf(counts) == [k \in 1..Len(counts) |-> RowOf(k, counts[k])]

\* Specs tables: a first row of up to MaxCells header cells and up to
\* MaxCells value cells, optionally followed by one of a few second rows.
MaxCells == 2

HeaderTexts ==
  { HP, <<" ">> \o VOLTS, <<"h","p">>, <<"V","o","l","t","s">>, <<"A","M","P","S">> }

RECURSIVE HeaderLists(_)
HeaderLists(n) ==
  IF n = 0 THEN {<<>>}
  ELSE LET shorter == HeaderLists(n - 1)
       IN  shorter \cup {Append(h, x) : h \in {l \in shorter : Len(l) = n - 1},
                                         x \in HeaderTexts}

\* the text of value cell j of row r
Val(r, j) == <<"v", Digit[r], Digit[j], " ">>
ValuesOf(r, n) == [j \in 1..n |-> Val(r, j)]

FirstRows ==
  { [th |-> h, td |-> ValuesOf(1, n)] : h \in HeaderLists(MaxCells), n \in 0..MaxCells }
SecondRows ==
  { [th |-> <<HP>>, td |-> ValuesOf(2, 1)],
    [th |-> << <<"r","p","m">>, FRAME, RPM >>, td |-> ValuesOf(2, 2)],
    [th |-> <<>>, td |-> ValuesOf(2, 2)] }

SpecsTables ==
  { SpecsTable(<<r>>) : r \in FirstRows }
  \cup { SpecsTable(<<r, q>>) : r \in FirstRows, q \in SecondRows }

SpecsDocs ==
  { Doc(Elem(M1), NoElem, t, NoParts, NoAsset, NoAsset) : t \in SpecsTables }

ExtractDocs ==
  { Doc(Elem(M1), NoElem, NoSpecs, PartsTable(RowsOf(c)), NoAsset, NoAsset) :
      c \in CountLists(MaxRows) }
  \cup { Doc(t, x.description, x.specs, x.parts, NoAsset, NoAsset) :
           t \in RunTitles, x \in RunMetadata }
  \cup { Doc(NoElem, NoElem, NoSpecs, PartsNoTable, NoAsset, NoAsset) }
  \cup SpecsDocs

LeftOver ==
  GetMetadata(EmptyDict,
              Doc(Elem(M1), Elem(<<"d">>), SpecsTable(<<SpecRow>>),
                  PartsTable(<<GoodRow>>), NoAsset, NoAsset)).pj

ExtractInit ==
  /\ pc = "metadata"
  /\ error = "none"
  /\ crashStep = "none"
  /\ target = DCMotors
  /\ limit = 1
  /\ categories = <<DCMotors>>
  /\ nlinks = 2
  /\ location = "detail"
  /\ products = 2
  /\ productsEpoch = 0
  /\ listEpoch = 0
  /\ i = 0
  /\ page \in ExtractDocs
  /\ product_json \in {EmptyDict, LeftOver}
  /\ files = EmptyDict
  /\ dirs = {}
  /\ quitCalls = 0
  /\ trace = <<>>
  /\ persistCount = 0

ExtractNext == get_metadata

SpecExtract == ExtractInit /\ [][ExtractNext]_vars

\* ================================================================ properties
\* what the claims speak about, read off the page and the trace
IdOf(doc) == IF doc.title.present THEN Strip(doc.title.text) ELSE Unidentified
ManualPathOf(doc) == <<output, assets, IdOf(doc), manual_pdf>>
ImgPathOf(doc) == <<output, assets, IdOf(doc), img_jpg>>
JsonPathOf(doc) == <<output, IdOf(doc) \o dot_json>>

ScrapStarted == \E k \in 1..Len(trace) : trace[k].op = "scrap_start"
ScrapIndex == CHOOSE k \in 1..Len(trace) : trace[k].op = "scrap_start"
\* the events of scrap_product, in order
ScrapTrace == SubSeq(trace, ScrapIndex + 1, Len(trace))
NoLinkClicked == \A k \in 1..Len(trace) : trace[k].op # "click"
RunEnded == pc \in {"done", "crashed"}

\* C1: whatever the outcomes of the manual and image steps of a product, its
\* record is persisted and the loop goes on: no run is aborted at the
\* persistence step that follows the two asset steps.
C1_RecordPersistedAfterAssets ==
  ~(pc = "crashed" /\ crashStep = "save")

\* C2: a run that created a session has called driver.quit exactly once when
\* it ends, on every exit path.
C2_QuitOnEveryExit ==
  RunEnded => quitCalls = 1

\* C3: when load_products_page cannot find the category list, the run stops
\* there: scrap_product is never started, nothing is clicked or persisted.
C3_StopsWhenNoCategories ==
  categories = <<>> => (~ScrapStarted /\ NoLinkClicked /\ persistCount = 0)

\* C4: with n + 1 <= L, scrap_product runs exactly n iterations in sequence,
\* iteration i being click(i + 1), metadata, manual, image, save, back, and
\* exactly n records are persisted.
IterationEvents(k) ==
  <<Ev("click", k + 1), Ev("metadata", k), Ev("manual", k), Ev("img", k),
    Ev("save", k), Ev("back", k)>>

RECURSIVE ExpectedScrapTrace(_)
ExpectedScrapTrace(n) ==
  IF n = 0 THEN <<>> ELSE ExpectedScrapTrace(n - 1) \o IterationEvents(n - 1)

C4_ExactlyNIterations ==
  (ScrapStarted /\ limit + 1 <= products /\ pc \in {"exit", "done", "crashed"})
    => (persistCount = limit /\ ScrapTrace = ExpectedScrapTrace(limit))

\* C5: entered with an empty product-link list, scrap_product fails with the
\* "no products found" condition, clicks nothing and persists nothing.
C5_NoProductsFound ==
  (ScrapStarted /\ products = 0)
    => (pc = "crashed" /\ error = "No valid products found."
        /\ NoLinkClicked /\ persistCount = 0)

\* C6: an asset fetch whose source element is on the page and whose request
\* is answered writes nothing when the status is not 200, and when it is 200
\* leaves at the target path a file whose content is the response body.
FetchEffect(asset, path) ==
  IF asset.status = 200
  THEN path \in DOMAIN files' /\ files'[path] = asset.content
  ELSE files' = files

C6_AssetFetch ==
  [][ /\ (pc = "manual" /\ page.manual.present /\ page.manual.answered)
           => FetchEffect(page.manual, ManualPathOf(page))
      /\ (pc = "img" /\ page.image.present /\ page.image.answered)
           => FetchEffect(page.image, ImgPathOf(page)) ]_vars

C6_Witness ==
  /\ pc = "save"
  /\ page.manual = Asset(404, "b1")
  /\ ManualPathOf(page) \notin DOMAIN files
  /\ page.image = Asset(200, "b3")
  /\ ImgPathOf(page) \in DOMAIN files
  /\ files[ImgPathOf(page)] = "b3"

\* C7 as stated: a page without title is persisted as unidentified.json.
SpecSentinel == <<"u","n","i","d","e","n","t","i","f","i","e","d">>

Changed(path) == path \notin DOMAIN files \/ files'[path] # files[path]

ExpectedRecord(doc) ==
  << <<"product_id", TextOrNone(doc.title)>>,
     <<"description", TextOrNone(doc.description)>>,
     <<"specs", ExtractSpecs(doc.specs)>>,
     <<"bom", ExtractBom(doc.parts)>> >>

C8_NoCrossProductRetention ==
  pc = "back"
    => /\ JsonPathOf(page) \in DOMAIN files
       /\ files[JsonPathOf(page)] = ExpectedRecord(page)

\* the second product has no title, specs or BOM; the first one had them all
C8_Witness ==
  /\ pc = "back"
  /\ i = 1
  /\ ~page.title.present /\ ~page.specs.present /\ ~page.parts.div
  /\ <<output, M1 \o dot_json>> \in DOMAIN files
  /\ files[<<output, M1 \o dot_json>>][4][2] # <<>>
  /\ files[JsonPathOf(page)][4][2] = <<>>

\* C9: metadata extraction never raises, whichever element is absent.
C9_MetadataNeverRaises ==
  ~(pc = "crashed" /\ crashStep = "metadata")

\* C10: the extracted BOM is, in document order, the body rows with exactly
\* three cells, each mapped to part_number, description, quantity from cells
\* 0, 1, 2; rows with cell counts 3,2,3,4,3 yield exactly 3 entries.
ExpectedBom(rows) ==
  LET good == SelectSeq(rows, LAMBDA r : Len(r) = 3)
  IN  [k \in 1..Len(good) |-> [part_number |-> Strip(good[k][1]),
                               description |-> Strip(good[k][2]),
                               quantity |-> Strip(good[k][3])]]

CellCountsOf(rows) == [k \in 1..Len(rows) |-> Len(rows[k])]

C10_BomExactlyThreeCellRows ==
  (pc = "manual" /\ page.parts.tbody)
    => /\ product_json["bom"] = ExpectedBom(page.parts.rows)
       /\ CellCountsOf(page.parts.rows) = <<3, 2, 3, 4, 3>>
            => Len(product_json["bom"]) = 3

C10_Witness ==
  /\ pc = "manual"
  /\ page.parts.tbody
  /\ CellCountsOf(page.parts.rows) = <<3, 2, 3, 4, 3>>
  /\ Len(product_json["bom"]) = 3
  /\ product_json["bom"][2].part_number = <<"r", "3", "c", "1">>
  /\ product_json["bom"][3].quantity = <<"r", "5", "c", "3">>

\* C11: every key of the specs mapping is the lower-cased form of an
\* allow-list key that is the text of a header cell (as read, stripped) in
\* exactly that spelling, its value is the text of the value cell paired with
\* that header by position, and headers in any other spelling or beyond the
\* shorter side of a row contribute nothing.
LowerAllowList == { <<"h","p">>, <<"v","o","l","t","s">>, <<"r","p","m">>,
                    <<"f","r","a","m","e">> }

PairedCells(rows) ==
  UNION { { <<r, j>> : j \in 1..Min(Len(rows[r].th), Len(rows[r].td)) } :
          r \in 1..Len(rows) }
HeaderAt(rows, p) == Strip(rows[p[1]].th[p[2]])
ValueAt(rows, p) == Strip(rows[p[1]].td[p[2]])
AcceptedCells(rows) == { p \in PairedCells(rows) : HeaderAt(rows, p) \in {HP, VOLTS, RPM, FRAME} }

C11_SpecsKeysFromAllowList ==
  (pc = "manual" /\ page.specs.present)
    => LET rows == page.specs.rows
           specs == product_json["specs"]
       IN  /\ DOMAIN specs \subseteq LowerAllowList
           /\ DOMAIN specs = { Lower(HeaderAt(rows, p)) : p \in AcceptedCells(rows) }
           /\ \A k \in DOMAIN specs :
                \E p \in AcceptedCells(rows) :
                  Lower(HeaderAt(rows, p)) = k /\ specs[k] = ValueAt(rows, p)

\* headers "hp" and "HP" with one value cell only: nothing is recorded;
\* the second row's "rpm" is dropped and its FRAME is kept
C11_Witness ==
  /\ pc = "manual"
  /\ page.specs.present
  /\ Len(page.specs.rows) = 2
  /\ page.specs.rows[1].th = << <<"h","p">>, HP >>
  /\ Len(page.specs.rows[1].td) = 1
  /\ page.specs.rows[2].th = << <<"r","p","m">>, FRAME, RPM >>
  /\ DOMAIN product_json["specs"] = { <<"f","r","a","m","e">> }
  /\ product_json["specs"][<<"f","r","a","m","e">>] = <<"v", "2", "2">>

\* C12: persisting overwrites without merging: after __save_json the file
\* <identifier>.json is exactly the record of the product just persisted,
\* whatever an earlier product with the same identifier left there, every
\* other file is untouched, and persisting a record the file already holds
\* leaves the file system as it was.
C12_OverwriteNoMerge ==
  [][ (pc = "save" /\ pc' = "back")
        => /\ DOMAIN files' = (DOMAIN files) \cup {JsonPathOf(page)}
           /\ files'[JsonPathOf(page)] = ExpectedRecord(page)
           /\ \A path \in DOMAIN files :
                path # JsonPathOf(page) => files'[path] = files[path]
           /\ (JsonPathOf(page) \in DOMAIN files
               /\ files[JsonPathOf(page)] = ExpectedRecord(page))
                => files' = files ]_vars

JsonFiles == { path \in DOMAIN files : Len(path) = 2 }

\* two products were persisted, both into the one JSON file there is
C12_Witness ==
  /\ pc = "back"
  /\ persistCount = 2
  /\ JsonFiles = {JsonPathOf(page)}
  /\ files[JsonPathOf(page)] = ExpectedRecord(page)

\* C13: open() navigates to the catalog root and then completes consent
\* handling without failing: a clickable accept-all control is clicked once
\* and the 4-unit pause follows; on a timeout nothing is clicked, there is no
\* pause, and open() returns so that list loading proceeds.
Count(seq, op) == Cardinality({k \in 1..Len(seq) : seq[k].op = op})
\* the events of open(): up to the first event of load_products_page
OpenLength ==
  IF \E k \in 1..Len(trace) : trace[k].op \in {"wait_timeout", "sleep_rand"}
  THEN (CHOOSE k \in 1..Len(trace) :
          /\ trace[k].op \in {"wait_timeout", "sleep_rand"}
          /\ \A j \in 1..(k - 1) : trace[j].op \notin {"wait_timeout", "sleep_rand"}) - 1
  ELSE Len(trace)
OpenTrace == SubSeq(trace, 1, OpenLength)

C13_OpenCompletesConsent ==
  /\ crashStep # "open"
  /\ pc # "open"
       => /\ location # "blank"
          /\ OpenTrace[1] = Ev("get", 0)
          /\ \/ OpenTrace = <<Ev("get", 0), Ev("consent_click", 0), Ev("sleep", 4)>>
             \/ /\ Count(OpenTrace, "consent_timeout") = 1
                /\ Count(OpenTrace, "consent_click") = 0
                /\ Count(OpenTrace, "sleep") = 0
                /\ Len(OpenTrace) = 2

\* the wait timed out and list loading has run all the same
C13_Witness ==
  /\ pc = "scrap"
  /\ OpenTrace = <<Ev("get", 0), Ev("consent_timeout", 0)>>
  /\ Len(trace) > Len(OpenTrace)

\* C14: at the end of a run, assets/<identifier>/manual.pdf (img.jpg) is
\* present only if the product whose record is stored in <identifier>.json
\* had the manual link (image element) and its download answered 200.  The
\* last product persisted is the one `page` still shows.
Downloaded(asset) == asset.present /\ asset.answered /\ asset.status = 200

C14_AssetsBelongToStoredRecord ==
  (pc = "done" /\ persistCount > 0)
    => /\ ManualPathOf(page) \in DOMAIN files => Downloaded(page.manual)
       /\ ImgPathOf(page) \in DOMAIN files => Downloaded(page.image)

\* C15: from the second iteration on, the link clicked comes from a lookup
\* made after the preceding return to the list page.
C15_ListReacquired ==
  (pc = "metadata" /\ i >= 1) => productsEpoch = listEpoch

\* the events of load_products_page: after those of open(), before those
\* of scrap_product
LoadEnd == IF ScrapStarted THEN ScrapIndex - 1 ELSE Len(trace)
LoadTrace == SubSeq(trace, OpenLength + 1, LoadEnd)
LoadReturned == pc \notin {"open", "load"}
CategoryClicks ==
  LET c == SelectSeq(LoadTrace, LAMBDA e : e.op = "category_click")
  IN  [k \in 1..Len(c) |-> c[k].arg]
Matches == { k \in 1..Len(categories) : Strip(categories[k]) = target }
FirstMatch == CHOOSE k \in Matches : \A j \in Matches : k <= j

\* C16: with a target category, load_products_page clicks exactly the first
\* element whose stripped label equals the target and no later one, and
\* clicks nothing and raises nothing when no label matches.
C16_FirstMatchOnly ==
  (LoadReturned /\ target # None /\ categories # <<>>)
    => /\ CategoryClicks = (IF Matches = {} THEN <<>> ELSE <<FirstMatch>>)
       /\ Count(LoadTrace, "general_error") = 0

\* C17: without a target category, load_products_page clicks the element at
\* position 4 and nothing else for every non-empty list, and fails only when
\* the list is empty.
C17_DefaultFifthCategory ==
  (LoadReturned /\ target = None /\ categories # <<>>)
    => /\ CategoryClicks = <<5>>
       /\ Count(LoadTrace, "general_error") = 0

\* C19: with L >= 1 links and n + 1 > L, exactly the products at positions
\* 1 to L - 1 are clicked, extracted, persisted and left again, then the
\* operation fails at iteration L - 1 before any click.
C19_FailsAfterLMinusOne ==
  (ScrapStarted /\ products >= 1 /\ limit + 1 > products /\ pc = "crashed")
    => /\ error = "IndexError"
       /\ i = products - 1
       /\ persistCount = products - 1
       /\ ScrapTrace = ExpectedScrapTrace(products - 1)

\* C18: on every path through load_products_page the fixed 3-unit settle
\* delay happens exactly once, as the last action before the return, and the
\* randomized post-click delay comes right before it exactly on the paths
\* without an error.
LoadFailed ==
  Count(LoadTrace, "wait_timeout") + Count(LoadTrace, "general_error") > 0
PostClickDelay ==
  /\ Len(LoadTrace) >= 3
  /\ LoadTrace[Len(LoadTrace) - 1] = Ev("sleep_rand", 0)
  /\ Count(LoadTrace, "sleep_rand") = 2

C18_SettleDelayOnEveryPath ==
  LoadReturned
    => /\ Count(LoadTrace, "sleep") = 1
       /\ LoadTrace[Len(LoadTrace)] = Ev("sleep", 3)
       /\ PostClickDelay <=> ~LoadFailed

\* an error after a click: the settle delay follows the handler directly
C18_Witness ==
  /\ pc = "scrap"
  /\ Count(LoadTrace, "category_click") = 1
  /\ Count(LoadTrace, "general_error") = 1
  /\ LoadTrace[Len(LoadTrace) - 1] = Ev("general_error", 0)
  /\ LoadTrace[Len(LoadTrace)] = Ev("sleep", 3)

====
